---- MODULE Spec2Model ----
(***************************************************************************)
(* Graph store adapter (graph/neo4j_storage.py) and query engine           *)
(* (graph/query.py) of EngKnowledgeGraph, over a labelled property graph.  *)
(*                                                                         *)
(* The backing store is a multiset of nodes, each with one label and a     *)
(* property map, and a multiset of typed directed relationships.  Cypher   *)
(* MERGE is "match every element that fits the pattern, create one when    *)
(* none does"; MATCH binds every node that fits; a variable-length pattern *)
(* follows relationships without repeating a relationship.                 *)
(***************************************************************************)
EXTENDS Bags, FiniteSets, Integers, Sequences, TLC

\* ---------------------------------------------------------------- bounds
NumIds == 2
MaxBatch == 1
MaxNodes == 2
MaxRels == 2
BlastMaxNodes == 3
BlastMaxRels == 3
PathMaxNodes == 4
PathMaxRels == 4
TeamsMaxRels == 3
MaxRetries == 2
MaxClock == 3
MaxQueue == 2

IdNames == <<"a", "b", "c", "d", "e", "f">>
Ids == {IdNames[i] : i \in 1..NumIds}
MissingId == "ghost"

NodeTypes == {"service", "database"}
EdgeTypes == {"DEPENDS_ON", "OWNED_BY"}

None == [absent |-> TRUE]
Raise == [raised |-> TRUE]

BoundedSeq(S, n) == UNION {[1..k -> S] : k \in 0..n}

\* ------------------------------------------------------------ the store
VARIABLES store, res

vars == <<store, res>>

EmptyStore == [nodes |-> EmptyBag, props |-> <<>>, rels |-> EmptyBag]

NodeSet(s) == BagToSet(s.nodes)
RelSet(s) == BagToSet(s.rels)

\* Neo4jStorage._label
_label(node_type) ==
    CASE node_type = "service" -> "Service"
      [] node_type = "database" -> "Database"
      [] node_type = "cache" -> "Cache"
      [] node_type = "team" -> "Team"
      [] node_type = "k8s_deployment" -> "K8sDeployment"
      [] node_type = "k8s_service" -> "K8sService"
      [] OTHER -> "Resource"

\* json.dumps of a nested value: an opaque string
json_dumps(value) == <<"str", value[2] + (IF value[1] = "dict" THEN 100 ELSE 200)>>

\* Neo4jStorage._flatten_metadata; a value is <<kind, payload>>
_flatten_metadata(metadata) ==
    LET kept == {key \in DOMAIN metadata : metadata[key][1] # "none"}
    IN  [key \in kept |->
            IF metadata[key][1] \in {"scalar", "scalars"}
            THEN metadata[key]
            ELSE json_dumps(metadata[key])]

\* the nodes a pattern (n {id: $id}) binds
MatchId(s, id) == {k \in NodeSet(s) : s.props[k]["id"] = id}

\* the nodes a pattern (n:Label {id: $id}) binds
MatchLabelId(s, label, id) == {k \in MatchId(s, id) : k[1] = label}

\* one iteration of write_nodes: MERGE (n:Label {id}) SET name, source, += properties
MergeNode(s, node) ==
    LET label == _label(node.type)
        key == <<label, node.id>>
        found == MatchLabelId(s, label, node.id)
        properties == _flatten_metadata(node.metadata)
        old == IF found = {} THEN ("id" :> node.id) ELSE s.props[key]
        new == properties @@ ("name" :> node.name) @@ ("source" :> node.source) @@ old
    IN  [nodes |-> IF found = {} THEN s.nodes (+) SetToBag({key}) ELSE s.nodes,
         props |-> [k \in NodeSet(s) \cup {key} |-> IF k = key THEN new ELSE s.props[k]],
         rels |-> s.rels]

\* MergeRel with CREATE in place of MERGE: a relationship per row, found or not
MergeRel_create(s, edge) ==
    LET rows == {<<a, edge.type, b>> : a \in MatchId(s, edge.from), b \in MatchId(s, edge.to)}
    IN  [s EXCEPT !.rels = s.rels (+) SetToBag(rows)]

\* MergeRel with MERGE in place of MATCH on the endpoints: a missing endpoint is created
MergeRel_upsert(s, edge) ==
    LET made == {<<"", i>> : i \in {j \in {edge.from, edge.to} : MatchId(s, j) = {}}}
        t == [nodes |-> s.nodes (+) SetToBag(made),
              props |-> [k \in NodeSet(s) \cup made |->
                            IF k \in made THEN ("id" :> k[2]) ELSE s.props[k]],
              rels |-> s.rels]
        rows == {<<a, edge.type, b>> : a \in MatchId(t, edge.from), b \in MatchId(t, edge.to)}
    IN  [t EXCEPT !.rels = t.rels (+) SetToBag(rows \ RelSet(t))]

\* MergeRel that first drops what the start nodes had of this type (replace, not add)
MergeRel_replace(s, edge) ==
    LET rows == {<<a, edge.type, b>> : a \in MatchId(s, edge.from), b \in MatchId(s, edge.to)}
        kept == {r \in RelSet(s) : ~(r[2] = edge.type /\ r[1] \in MatchId(s, edge.from))}
    IN  [s EXCEPT !.rels = SetToBag(kept \cup rows)]

\* one iteration of write_edges: MATCH a, MATCH b, MERGE (a)-[:type]->(b)
MergeRel(s, edge) ==
    LET rows == {<<a, edge.type, b>> : a \in MatchId(s, edge.from), b \in MatchId(s, edge.to)}
    IN  [s EXCEPT !.rels = s.rels (+) SetToBag(rows \ RelSet(s))]

RECURSIVE FoldNodes(_, _)
FoldNodes(s, nodes) ==
    IF nodes = <<>> THEN s ELSE FoldNodes(MergeNode(s, Head(nodes)), Tail(nodes))

RECURSIVE FoldEdges(_, _)
FoldEdges(s, edges) ==
    IF edges = <<>> THEN s ELSE FoldEdges(MergeRel(s, Head(edges)), Tail(edges))

\* ------------------------------------------------------- query engine
\* QueryEngine._node_to_dict
_node_to_dict(s, k) == [id |-> s.props[k]["id"], labels |-> {k[1]}, props |-> s.props[k]]

IdsOf(dicts) == {d.id : d \in dicts}

DependsOn(s) == {r \in RelSet(s) : r[2] = "DEPENDS_ON"}

\* TrailEnds with the pattern cut to one hop, [:DEPENDS_ON]
TrailEnds_onehop(s, cur, used) ==
    {r[3] : r \in {x \in DependsOn(s) \ used : x[1] = cur}}

\* ends of the patterns (cur)-[:DEPENDS_ON*1..]->(d) that repeat no relationship of used
RECURSIVE TrailEnds(_, _, _)
TrailEnds(s, cur, used) ==
    UNION {{r[3]} \cup TrailEnds(s, r[3], used \cup {r}) :
            r \in {x \in DependsOn(s) \ used : x[1] = cur}}

\* starts of the patterns (u)-[:DEPENDS_ON*1..]->(cur) that repeat no relationship of used
RECURSIVE TrailStarts(_, _, _)
TrailStarts(s, cur, used) ==
    UNION {{r[1]} \cup TrailStarts(s, r[1], used \cup {r}) :
            r \in {x \in DependsOn(s) \ used : x[3] = cur}}

\* MATCH (n {id})-[:DEPENDS_ON*1..]->(d) RETURN DISTINCT d
DownstreamRows(s, node_id) == UNION {TrailEnds(s, n, {}) : n \in MatchId(s, node_id)}

\* MATCH (u)-[:DEPENDS_ON*1..]->(n {id}) RETURN DISTINCT u
UpstreamRows(s, node_id) == UNION {TrailStarts(s, n, {}) : n \in MatchId(s, node_id)}

\* a list whose order the store does not fix is kept as the set of its entries
DownstreamList(s, node_id) == {_node_to_dict(s, d) : d \in DownstreamRows(s, node_id)}
UpstreamList(s, node_id) == {_node_to_dict(s, u) : u \in UpstreamRows(s, node_id)}

RECURSIVE BagSum(_)
BagSum(bags) ==
    IF bags = <<>> THEN EmptyBag ELSE Head(bags) (+) BagSum(Tail(bags))

RECURSIVE SetToSeq(_)
SetToSeq(S) ==
    IF S = {} THEN <<>> ELSE LET x == CHOOSE y \in S : TRUE IN <<x>> \o SetToSeq(S \ {x})

\* the rows of (cur)-[:DEPENDS_ON*1..]->(d): one row per pattern match, that
\* is per sequence of distinct relationships that leaves cur; forward or not
RECURSIVE TrailRows(_, _, _, _)
TrailRows(s, cur, used, forward) ==
    LET from == IF forward THEN 1 ELSE 3
        to == IF forward THEN 3 ELSE 1
        next == SetToSeq({x \in DependsOn(s) \ used : x[from] = cur})
    IN  BagSum([i \in 1..Len(next) |->
                SetToBag({next[i][to]}) (+) TrailRows(s, next[i][to], used \cup {next[i]}, forward)])

\* DISTINCT left out of the RETURN clause
DISTINCT_none(rows) == rows

\* RETURN DISTINCT
DISTINCT(rows) == SetToBag(BagToSet(rows))

\* the list downstream (forward) or upstream returns, as the bag of its entries
TraversalList(s, node_id, forward) ==
    LET starts == SetToSeq(MatchId(s, node_id))
        rows == DISTINCT(BagSum([i \in 1..Len(starts) |-> TrailRows(s, starts[i], {}, forward)]))
        found == SetToSeq(BagToSet(rows))
    IN  BagSum([i \in 1..Len(found) |->
                [d \in {_node_to_dict(s, found[i])} |-> CopiesIn(found[i], rows)]])

\* OwnerRows with the relationship type left out of the pattern, (n {id})-->(t)
OwnerRows_anytype(s, node_id) ==
    {r[3] : r \in {x \in RelSet(s) : x[1] \in MatchId(s, node_id)}}

\* MATCH (n {id})-[:OWNED_BY]->(t) RETURN t
OwnerRows(s, node_id) ==
    {r[3] : r \in {x \in RelSet(s) : x[2] = "OWNED_BY" /\ x[1] \in MatchId(s, node_id)}}

\* FirstRow without the "if not rows" guard: rows[0] of an empty list raises
FirstRow_unguarded(s, rows) == IF rows = {} THEN {Raise} ELSE {_node_to_dict(s, k) : k \in rows}

\* the outcomes of a method that returns rows[0] of an unordered result, or None
FirstRow(s, rows) == IF rows = {} THEN {None} ELSE {_node_to_dict(s, k) : k \in rows}

GetNodeOutcomes(s, node_id) == FirstRow(s, MatchId(s, node_id))
GetOwnerOutcomes(s, node_id) == FirstRow(s, OwnerRows(s, node_id))

\* every sequence of distinct DEPENDS_ON relationships leading from cur to b
RECURSIVE Trails(_, _, _, _)
Trails(s, cur, b, used) ==
    UNION {(IF r[3] = b THEN {<<r>>} ELSE {}) \cup
           {<<r>> \o t : t \in Trails(s, r[3], b, used \cup {r})} :
            r \in {x \in DependsOn(s) \ used : x[1] = cur}}

\* ShortestPaths with the pattern's arrow turned round, (a)<-[:DEPENDS_ON*..]-(b)
ShortestPaths_backward(s, a, b) ==
    LET all == Trails(s, b, a, {})
    IN  {t \in all : \A u \in all : Len(t) <= Len(u)}

\* shortestPath((a)-[:DEPENDS_ON*..]->(b)) for one bound pair a, b
ShortestPaths(s, a, b) ==
    LET all == Trails(s, a, b, {})
    IN  {t \in all : \A u \in all : Len(t) <= Len(u)}

PathDict(s, a, t) ==
    [nodes |-> <<s.props[a]["id"]>> \o [i \in 1..Len(t) |-> s.props[t[i][3]]["id"]],
     relationships |-> [i \in 1..Len(t) |-> t[i][2]]]

\* one row per pair of bound endpoints that a path joins; the method returns
\* rows[0].  A pair a = a makes the store refuse the query unless it is
\* configured to drop such pairs.
PathOutcomes(s, from_id, to_id) ==
    LET as == MatchId(s, from_id)
        bs == MatchId(s, to_id)
        pairs == {pr \in as \X bs : pr[1] # pr[2]}
        rows == UNION {{PathDict(s, pr[1], t) : t \in ShortestPaths(s, pr[1], pr[2])} :
                        pr \in pairs}
    IN  (IF as \cap bs # {} THEN {Raise} ELSE {}) \cup
        (IF rows = {} THEN {None} ELSE rows)

\* the dict comprehensions of blast_radius keep one entry per id
OnePerId(dicts) ==
    {pick \in SUBSET dicts :
        /\ IdsOf(pick) = IdsOf(dicts)
        /\ \A d, e \in pick : d.id = e.id => d = e}

\* ImpactedOutcomes with the root node put among the impacted nodes
ImpactedOutcomes_withroot(s, node_id) ==
    LET up == UpstreamList(s, node_id)
        down == {d \in DownstreamList(s, node_id) : d.id \notin IdsOf(up)}
    IN  OnePerId(up \cup down \cup {_node_to_dict(s, k) : k \in MatchId(s, node_id)})

\* impacted_nodes: an id found upstream replaces the downstream entry
ImpactedOutcomes(s, node_id) ==
    LET up == UpstreamList(s, node_id)
        down == {d \in DownstreamList(s, node_id) : d.id \notin IdsOf(up)}
    IN  OnePerId(up \cup down)

\* impacted_teams: one get_owner per impacted id, absent owners skipped
TeamsOutcomes(s, impacted) ==
    LET ids == IdsOf(impacted)
    IN  UNION {OnePerId({own[i] : i \in ids} \ {None}) :
                own \in {f \in [ids -> UNION {GetOwnerOutcomes(s, i) : i \in ids}] :
                            \A i \in ids : f[i] \in GetOwnerOutcomes(s, i)}}

BlastRadiusOutcomes(s, node_id) ==
    LET roots == GetNodeOutcomes(s, node_id)
    IN  IF roots = {None} THEN {None}
        ELSE {[node |-> root, downstream |-> impacted,
               upstream |-> UpstreamList(s, node_id), teams |-> teams] :
                root \in roots,
                impacted \in ImpactedOutcomes(s, node_id),
                teams \in UNION {TeamsOutcomes(s, imp) : imp \in ImpactedOutcomes(s, node_id)}}

\* ------------------------------------------------------------ connectors
\* a Python str is the sequence of its characters
S_service == <<"s", "e", "r", "v", "i", "c", "e">>
S_database == <<"d", "a", "t", "a", "b", "a", "s", "e">>
S_cache == <<"c", "a", "c", "h", "e">>
S_team == <<"t", "e", "a", "m">>
S_k8s == <<"k", "8", "s">>
S_deployment == <<"d", "e", "p", "l", "o", "y", "m", "e", "n", "t">>
S_db == <<"-", "d", "b">>
S_redis == <<"r", "e", "d", "i", "s">>
S_postgres == <<"p", "o", "s", "t", "g", "r", "e", "s">>
S_mysql == <<"m", "y", "s", "q", "l">>
S_mongo == <<"m", "o", "n", "g", "o">>

\* the characters of the literals the connectors give as a node's type
Chars(str) ==
    CASE str = "service" -> S_service
      [] str = "database" -> S_database
      [] str = "cache" -> S_cache
      [] str = "team" -> S_team
      [] str = "k8s_deployment" -> S_k8s \o <<"_">> \o S_deployment
      [] str = "k8s_service" -> S_k8s \o <<"_">> \o S_service
      [] str = "k8s-deployment" -> S_k8s \o <<"-">> \o S_deployment
      [] str = "k8s-service" -> S_k8s \o <<"-">> \o S_service

\* str.endswith, str.startswith, the operator in, str.lower
endswith(str, suffix) ==
    Len(str) >= Len(suffix) /\ SubSeq(str, Len(str) - Len(suffix) + 1, Len(str)) = suffix
startswith(str, prefix) ==
    Len(str) >= Len(prefix) /\ SubSeq(str, 1, Len(prefix)) = prefix
contains(sub, str) ==
    \E i \in 1..(Len(str) - Len(sub) + 1) : SubSeq(str, i, i + Len(sub) - 1) = sub
lower(str) ==
    [i \in 1..Len(str) |->
        CASE str[i] = "M" -> "m" [] str[i] = "R" -> "r" [] str[i] = "P" -> "p"
          [] OTHER -> str[i]]

\* str.capitalize: the first character in upper case, the rest in lower case
capitalize(str) ==
    IF str = <<>> THEN <<>>
    ELSE <<CASE str[1] = "s" -> "S" [] str[1] = "d" -> "D" [] str[1] = "c" -> "C"
              [] str[1] = "t" -> "T" [] str[1] = "k" -> "K" [] OTHER -> str[1]>>
         \o lower(Tail(str))

\* the characters of the labels _label gives
LabelChars(label) ==
    CASE label = "Service" -> <<"S">> \o Tail(S_service)
      [] label = "Database" -> <<"D">> \o Tail(S_database)
      [] label = "Cache" -> <<"C">> \o Tail(S_cache)
      [] label = "Team" -> <<"T">> \o Tail(S_team)
      [] label = "K8sDeployment" -> <<"K", "8", "s", "D">> \o Tail(S_deployment)
      [] label = "K8sService" -> <<"K", "8", "s", "S">> \o Tail(S_service)
      [] label = "Resource" -> <<"R", "e", "s", "o", "u", "r", "c", "e">>

\* QueryEngine.get_nodes: MATCH (n:`{type.capitalize()}`) WHERE n.key = $key AND ... RETURN n
get_nodes_list(s, type, filters) ==
    LET label == capitalize(Chars(type))
        matched == {k \in NodeSet(s) :
                        /\ LabelChars(k[1]) = label
                        /\ \A key \in DOMAIN filters :
                              key \in DOMAIN s.props[k] /\ s.props[k][key] = filters[key]}
    IN  {_node_to_dict(s, k) : k \in matched}

\* f"{resource_type}-{name}"
NodeId(prefix, name) == prefix \o <<"-">> \o name

\* a definition is None (name only), Null (a key with no mapping under it) or
\* a mapping; an image of <<>> is an image the mapping does not give
Null == [null |-> TRUE]

\* DockerComposeConnector.infer_resource_type
Compose_infer_resource_type(name, definition) ==
    LET image == IF definition \in {None, Null} THEN <<>> ELSE lower(definition.image)
    IN  IF endswith(name, S_db) THEN "database"
        ELSE IF \E db \in {S_postgres, S_mysql, S_mongo} : contains(db, image) THEN "database"
        ELSE IF contains(S_redis, image) \/ startswith(name, S_redis) THEN "cache"
        ELSE "service"

\* Teams_infer_resource_type with the two rules in the other order
Teams_infer_cachefirst(name) ==
    IF startswith(name, S_redis) THEN "cache"
    ELSE IF endswith(name, S_db) THEN "database"
    ELSE "service"

\* TeamsConnector.infer_resource_type
Teams_infer_resource_type(name) ==
    IF endswith(name, S_db) THEN "database"
    ELSE IF startswith(name, S_redis) THEN "cache"
    ELSE "service"

\* DockerComposeConnector.build_node
Compose_build_node(name, definition, resource_type) ==
    [id |-> NodeId(Chars(resource_type), name),
     type |-> resource_type,
     name |-> name,
     metadata |-> [image |-> IF definition.image = <<>> THEN <<"none", 0>>
                             ELSE <<"scalar", definition.image>>,
                   ports |-> <<"scalars", 0>>,
                   environment |-> <<"none", 0>>,
                   labels |-> <<"dict", 0>>],
     source |-> "docker-compose.yml"]

\* DockerComposeConnector.build_dependency_edge
build_dependency_edge(source_id, target_id) ==
    [from |-> source_id, to |-> target_id, type |-> "DEPENDS_ON"]

RECURSIVE Concat(_)
Concat(seqs) == IF seqs = <<>> THEN <<>> ELSE Head(seqs) \o Concat(Tail(seqs))

\* Compose_parse with every dependency's type inferred from its name alone
Compose_parse_nameonly(data) ==
    LET services == data.services
        typeOf(i) == Compose_infer_resource_type(services[i][1], services[i][2])
        nodes == [i \in 1..Len(services) |->
                    Compose_build_node(services[i][1], services[i][2], typeOf(i))]
        edges == Concat([i \in 1..Len(services) |->
                    LET deps == services[i][2].depends_on
                    IN  [k \in 1..Len(deps) |->
                            build_dependency_edge(
                                NodeId(Chars(typeOf(i)), services[i][1]),
                                NodeId(Chars(Compose_infer_resource_type(deps[k], None)),
                                       deps[k]))]])
    IN  IF \E i \in 1..Len(services) : services[i][2] = Null
        THEN Raise
        ELSE <<nodes, edges>>

\* DockerComposeConnector.parse; services is the mapping in its order, a
\* sequence of <<name, definition>>
Compose_parse(data) ==
    LET services == data.services
        defined == {services[i][1] : i \in 1..Len(services)}
        inferred_types ==
            [n \in defined |->
                LET i == CHOOSE j \in 1..Len(services) : services[j][1] = n
                IN  Compose_infer_resource_type(n, services[i][2])]
        dep_id(dependency) ==
            NodeId(Chars(IF dependency \in defined THEN inferred_types[dependency]
                         ELSE Compose_infer_resource_type(dependency, None)),
                   dependency)
        nodes == [i \in 1..Len(services) |->
                    Compose_build_node(services[i][1], services[i][2],
                                       inferred_types[services[i][1]])]
        edges == Concat([i \in 1..Len(services) |->
                    LET source_id == NodeId(Chars(inferred_types[services[i][1]]), services[i][1])
                        deps == services[i][2].depends_on
                    IN  [k \in 1..Len(deps) |-> build_dependency_edge(source_id, dep_id(deps[k]))]])
    IN  IF \E i \in 1..Len(services) : services[i][2] = Null
        THEN Raise
        ELSE <<nodes, edges>>

\* TeamsConnector.build_team_node; a lead of <<>> is a lead the team does not give
build_team_node(team) ==
    [id |-> NodeId(S_team, team.name),
     type |-> "team",
     name |-> team.name,
     metadata |-> [lead |-> IF team.lead = <<>> THEN <<"none", 0>> ELSE <<"scalar", team.lead>>,
                   slack_channel |-> <<"none", 0>>,
                   pagerduty_schedule |-> <<"none", 0>>],
     source |-> "teams.yaml"]

\* TeamsConnector.build_resource_node
build_resource_node(name, resource_type) ==
    [id |-> NodeId(Chars(resource_type), name),
     type |-> resource_type,
     name |-> name,
     metadata |-> <<>>,
     source |-> "teams.yaml"]

\* TeamsConnector.build_ownership_edge
build_ownership_edge(resource_id, team_id) ==
    [from |-> resource_id, to |-> team_id, type |-> "OWNED_BY"]

\* what one team of the registry adds to nodes and to edges; a team without a
\* name (<<>>) is passed over
TeamNodes(team) ==
    IF team.name = <<>> THEN <<>>
    ELSE <<build_team_node(team)>> \o
         [k \in 1..Len(team.owns) |->
            build_resource_node(team.owns[k], Teams_infer_resource_type(team.owns[k]))]

TeamEdges(team) ==
    IF team.name = <<>> THEN <<>>
    ELSE [k \in 1..Len(team.owns) |->
            build_ownership_edge(
                NodeId(Chars(Teams_infer_resource_type(team.owns[k])), team.owns[k]),
                NodeId(S_team, team.name))]

\* TeamsConnector.parse; an entry of teams that is no mapping (Null) makes
\* team.get raise
Teams_parse(data) ==
    LET teams == data.teams
    IN  IF \E i \in 1..Len(teams) : teams[i] = Null
        THEN Raise
        ELSE <<Concat([i \in 1..Len(teams) |-> TeamNodes(teams[i])]),
               Concat([i \in 1..Len(teams) |-> TeamEdges(teams[i])])>>

\* KubernetesConnector.build_deployment_node
build_deployment_node(name) ==
    [id |-> NodeId(Chars("k8s-deployment"), name),
     type |-> "k8s_deployment",
     name |-> name,
     metadata |-> [namespace |-> <<"scalar", 0>>, replicas |-> <<"none", 0>>,
                   containers |-> <<"list", 0>>, labels |-> <<"dict", 0>>],
     source |-> "k8s.yaml"]

\* KubernetesConnector.build_service_node
build_service_node(name) ==
    [id |-> NodeId(Chars("k8s-service"), name),
     type |-> "k8s_service",
     name |-> name,
     metadata |-> [namespace |-> <<"scalar", 0>>, service_type |-> <<"scalar", 0>>,
                   ports |-> <<"list", 0>>, selector |-> <<"dict", 0>>],
     source |-> "k8s.yaml"]

\* KubernetesConnector.parse; a metadata that is no mapping (Null) makes
\* metadata.get raise, a name of <<>> is a name the metadata does not give
K8s_parse(data) ==
    IF data.metadata = Null THEN Raise
    ELSE IF data.kind = "" \/ data.metadata.name = <<>> THEN <<<<>>, <<>>>>
    ELSE IF data.kind = "Deployment" THEN <<<<build_deployment_node(data.metadata.name)>>, <<>>>>
    ELSE IF data.kind = "Service" THEN <<<<build_service_node(data.metadata.name)>>, <<>>>>
    ELSE <<<<>>, <<>>>>

\* ---------------------------------------------------- ingestion pipeline
\* a structural document is a mapping (a record of its top-level keys) or a
\* value that is no mapping: an empty document or a sequence
NonMappings == {None, [sequence |-> TRUE]}

isinstance_dict(document) == document \notin NonMappings

\* connector.can_handle(filename, document): "yes", "no" or "raise".  The
\* connectors are the caller's; Unsteady stands for one whose can_handle raises
can_handle(connector, document) ==
    CASE connector = "TeamsConnector" ->
            IF isinstance_dict(document) /\ "teams" \in DOMAIN document THEN "yes" ELSE "no"
      [] connector = "DockerComposeConnector" ->
            IF isinstance_dict(document) /\ "services" \in DOMAIN document THEN "yes" ELSE "no"
      [] connector = "KubernetesConnector" ->
            IF isinstance_dict(document) /\ "kind" \in DOMAIN document
                    /\ "metadata" \in DOMAIN document
            THEN "yes" ELSE "no"
      [] connector = "Unsteady" -> "raise"

\* connector.parse(document)
parse(connector, document) ==
    CASE connector = "TeamsConnector" -> Teams_parse(document)
      [] connector = "DockerComposeConnector" -> Compose_parse(document)
      [] connector = "KubernetesConnector" -> K8s_parse(document)
      [] connector = "Unsteady" -> Raise

Dispatched(outcome, asked, parsed_by, nodes, edges) ==
    [outcome |-> outcome, asked |-> asked, parsed_by |-> parsed_by,
     nodes |-> nodes, edges |-> edges]

\* Dispatch with "continue" in place of "break" in the except clause
RECURSIVE Dispatch_fallthrough(_, _, _)
Dispatch_fallthrough(connectors, document, i) ==
    IF i > Len(connectors)
    THEN Dispatched("unmatched", connectors, <<>>, <<>>, <<>>)
    ELSE LET connector == connectors[i]
             rest == Dispatch_fallthrough(connectors, document, i + 1)
         IN  IF can_handle(connector, document) = "raise"
             THEN [rest EXCEPT !.outcome = IF @ = "unmatched" THEN "failed" ELSE @]
             ELSE IF can_handle(connector, document) = "yes"
             THEN IF parse(connector, document) = Raise
                  THEN [rest EXCEPT !.outcome = IF @ = "unmatched" THEN "failed" ELSE @,
                                    !.parsed_by = <<connector>> \o @]
                  ELSE Dispatched("matched", SubSeq(connectors, 1, i), <<connector>>,
                                  parse(connector, document)[1], parse(connector, document)[2])
             ELSE rest

\* Dispatch without the "break" after a successful parse
RECURSIVE Dispatch_nobreak(_, _, _)
Dispatch_nobreak(connectors, document, i) ==
    IF i > Len(connectors)
    THEN Dispatched("unmatched", connectors, <<>>, <<>>, <<>>)
    ELSE LET connector == connectors[i]
             rest == Dispatch_nobreak(connectors, document, i + 1)
         IN  IF can_handle(connector, document) = "raise"
             THEN Dispatched("failed", SubSeq(connectors, 1, i), <<>>, <<>>, <<>>)
             ELSE IF can_handle(connector, document) = "yes"
             THEN IF parse(connector, document) = Raise
                  THEN Dispatched("failed", SubSeq(connectors, 1, i), <<connector>>, <<>>, <<>>)
                  ELSE Dispatched("matched", rest.asked, <<connector>> \o rest.parsed_by,
                                  parse(connector, document)[1] \o rest.nodes,
                                  parse(connector, document)[2] \o rest.edges)
             ELSE rest

\* run_ingestion, the loop over connectors for one document, from connector i
\* on: who was asked, whose parse was called, and what the document adds
RECURSIVE Dispatch(_, _, _)
Dispatch(connectors, document, i) ==
    IF i > Len(connectors)
    THEN Dispatched("unmatched", connectors, <<>>, <<>>, <<>>)
    ELSE LET connector == connectors[i]
         IN  IF can_handle(connector, document) = "raise"
             THEN Dispatched("failed", SubSeq(connectors, 1, i), <<>>, <<>>, <<>>)
             ELSE IF can_handle(connector, document) = "yes"
             THEN IF parse(connector, document) = Raise
                  THEN Dispatched("failed", SubSeq(connectors, 1, i), <<connector>>, <<>>, <<>>)
                  ELSE Dispatched("matched", SubSeq(connectors, 1, i), <<connector>>,
                                  parse(connector, document)[1], parse(connector, document)[2])
             ELSE Dispatch(connectors, document, i + 1)

\* the body of the loop over the documents of a file
DocumentResult(connectors, document) ==
    IF ~isinstance_dict(document)
    THEN Dispatched("passed", <<>>, <<>>, <<>>, <<>>)
    ELSE Dispatch(connectors, document, 1)

\* load_yaml_documents and the try around it: a file gives the list of its
\* documents ("ok"), or load is "invalid" (YAMLError) or "unreadable" (another
\* exception) and there are none
Invalid == [load |-> "invalid", documents |-> <<>>]
Unreadable == [load |-> "unreadable", documents |-> <<>>]
Loaded(documents) == [load |-> "ok", documents |-> documents]

\* what run_ingestion prints for file f
Printed(event, f, connector) == [event |-> event, file |-> f, connector |-> connector]

FileLog(f, file, results) ==
    IF file.load = "invalid" THEN <<Printed("Invalid YAML", f, ""), Printed("Skipping", f, "")>>
    ELSE IF file.load = "unreadable" THEN <<Printed("Failed to load", f, "")>>
    ELSE IF file.documents = <<>> THEN <<Printed("Skipping", f, "")>>
    ELSE Concat([d \in 1..Len(file.documents) |->
                    IF results[d].outcome = "matched"
                    THEN <<Printed("OK", f, results[d].parsed_by[1])>>
                    ELSE IF results[d].outcome = "failed"
                    THEN <<Printed("Error", f, results[d].asked[Len(results[d].asked)])>>
                    ELSE <<>>])
         \o (IF \E d \in 1..Len(file.documents) : results[d].outcome \in {"matched", "failed"}
             THEN <<>> ELSE <<Printed("SKIP", f, "")>>)

\* run_ingestion over the files of the directory in the order glob gives them
RunIngestion(files, connectors) ==
    LET results == [f \in 1..Len(files) |->
                        [d \in 1..Len(files[f].documents) |->
                            DocumentResult(connectors, files[f].documents[d])]]
    IN  [nodes |-> Concat([f \in 1..Len(files) |->
                        Concat([d \in 1..Len(results[f]) |-> results[f][d].nodes])]),
         edges |-> Concat([f \in 1..Len(files) |->
                        Concat([d \in 1..Len(results[f]) |-> results[f][d].edges])]),
         log |-> Concat([f \in 1..Len(files) |-> FileLog(f, files[f], results[f])]),
         results |-> results]

\* ---------------------------------------------------------------- inputs
NoMeta == <<>>

NodeInputs(ids, types, metas) ==
    {[id |-> i, type |-> t, name |-> "n", source |-> "src", metadata |-> m] :
        i \in ids, t \in types, m \in metas}

EdgeInputs(ids, types) ==
    {[from |-> f, to |-> t, type |-> ty] : f \in ids, t \in ids, ty \in types}

InBounds(s, maxNodes, maxRels) ==
    /\ BagCardinality(s.nodes) <= maxNodes
    /\ BagCardinality(s.rels) <= maxRels

\* the edges of a call that name an id no stored node has
Dangling(s, edges) ==
    SelectSeq(edges, LAMBDA e : MatchId(s, e.from) = {} \/ MatchId(s, e.to) = {})

Resolvable(s, edges) ==
    SelectSeq(edges, LAMBDA e : MatchId(s, e.from) # {} /\ MatchId(s, e.to) # {})

\* --------------------------------------------------------------- actions
\* res holds what the last call returned until its caller has taken it; the
\* callers (ingest.main, the query front ends) make one call after the other
Idle == [op |-> "idle"]

Init ==
    /\ store = EmptyStore
    /\ res = Idle

\* the caller takes the returned value and goes on
Return ==
    /\ res # Idle
    /\ res' = Idle
    /\ UNCHANGED store

\* Neo4jStorage.write_nodes
write_nodes(nodes, maxNodes) ==
    /\ res = Idle
    /\ \E after \in {FoldNodes(store, nodes)} :
        /\ InBounds(after, maxNodes, BagCardinality(after.rels))
        /\ store' = after
        /\ res' = [op |-> "write_nodes", val |-> None]

\* what store s holds that store t does not
WrittenBeyond(s, t) == [nodes |-> s.nodes (-) t.nodes, rels |-> s.rels (-) t.rels]

\* Neo4jStorage.write_edges; the record of the call keeps how many of its edges
\* dangle and what the store holds that its other edges alone do not account for
write_edges(edges, maxRels) ==
    /\ res = Idle
    /\ \E after \in {FoldEdges(store, edges)} :
        /\ InBounds(after, BagCardinality(after.nodes), maxRels)
        /\ store' = after
        /\ res' = [op |-> "write_edges", dangling |-> Len(Dangling(store, edges)),
                   from_dangling |-> WrittenBeyond(after, FoldEdges(store, Resolvable(store, edges))),
                   val |-> None]

\* ingest.main run twice over one source set: each run is write_nodes then write_edges
ingest_twice(nodes, edges) ==
    \E once \in {FoldEdges(FoldNodes(store, nodes), edges)} :
        \E twice \in {FoldEdges(FoldNodes(once, nodes), edges)} :
            /\ InBounds(twice, MaxNodes, MaxRels)
            /\ store' = twice
            /\ res' = [op |-> "ingest_twice", once |-> [nodes |-> once.nodes, rels |-> once.rels],
                       val |-> None]

\* ingest.main over one ownership registry, then get_owner of a resource the
\* registry lists; the record keeps which named teams list the resource and
\* which nodes owned it before the run
registry_owner(data, resource, maxRels) ==
    /\ res = Idle
    /\ \E parsed \in {Teams_parse(data)} :
        \E after \in {FoldEdges(FoldNodes(store, parsed[1]), parsed[2])} :
            /\ InBounds(after, BagCardinality(after.nodes), maxRels)
            /\ store' = after
            /\ LET resource_id == NodeId(Chars(Teams_infer_resource_type(resource)), resource)
               IN  \E val \in GetOwnerOutcomes(after, resource_id) :
                     res' = [op |-> "registry_owner", arg |-> resource_id,
                             listing |-> {data.teams[i].name : i \in
                                            {j \in 1..Len(data.teams) :
                                                /\ data.teams[j].name # <<>>
                                                /\ \E k \in 1..Len(data.teams[j].owns) :
                                                      data.teams[j].owns[k] = resource}},
                             owned_before |-> {store.props[t]["id"] : t \in OwnerRows(store, resource_id)},
                             val |-> val]

\* write_with_retry: the frame of the call, at the try of attempt `attempt`
\* ("try": before write_nodes, "edges": before write_edges), in its except
\* clause, or over ("returned", "raised"); failed counts the attempts that raised
Frame(pc, attempt, retries, nodes, edges, failed) ==
    [op |-> "write_with_retry", pc |-> pc, attempt |-> attempt, retries |-> retries,
     nodes |-> nodes, edges |-> edges, failed |-> failed, val |-> None]

At(pc) == res.op = "write_with_retry" /\ res.pc = pc

Goto(pc) == res' = [res EXCEPT !.pc = pc]

\* the call: the first attempt, or the return at once when range(1, retries + 1)
\* is empty
write_with_retry_call(nodes, edges, retries) ==
    /\ res = Idle
    /\ res' = IF retries >= 1
              THEN Frame("try", 1, retries, nodes, edges, 0)
              ELSE Frame("returned", 0, retries, nodes, edges, 0)
    /\ UNCHANGED store

\* storage.write_nodes(nodes): every node is written, or the store fails at
\* some node and those before it stay written
retry_write_nodes ==
    /\ At("try")
    /\ \/ store' = FoldNodes(store, res.nodes) /\ Goto("edges")
       \/ \E k \in 0..(Len(res.nodes) - 1) :
            /\ store' = FoldNodes(store, SubSeq(res.nodes, 1, k))
            /\ res' = [res EXCEPT !.pc = "except", !.failed = @ + 1]
       \/ res.nodes = <<>> /\ UNCHANGED store
            /\ res' = [res EXCEPT !.pc = "except", !.failed = @ + 1]

\* storage.write_edges(edges), likewise; then return
retry_write_edges ==
    /\ At("edges")
    /\ \/ store' = FoldEdges(store, res.edges) /\ Goto("returned")
       \/ \E k \in 0..(Len(res.edges) - 1) :
            /\ store' = FoldEdges(store, SubSeq(res.edges, 1, k))
            /\ res' = [res EXCEPT !.pc = "except", !.failed = @ + 1]
       \/ res.edges = <<>> /\ UNCHANGED store
            /\ res' = [res EXCEPT !.pc = "except", !.failed = @ + 1]

\* retry_except that gives up one attempt early
retry_except_early ==
    /\ At("except")
    /\ IF res.attempt >= res.retries - 1
       THEN res' = [res EXCEPT !.pc = "raised", !.val = Raise]
       ELSE res' = [res EXCEPT !.pc = "try", !.attempt = @ + 1]
    /\ UNCHANGED store

\* the except clause: raise at the last attempt, else sleep and go round
retry_except ==
    /\ At("except")
    /\ IF res.attempt = res.retries
       THEN res' = [res EXCEPT !.pc = "raised", !.val = Raise]
       ELSE res' = [res EXCEPT !.pc = "try", !.attempt = @ + 1]
    /\ UNCHANGED store

\* the caller has the return or the exception
retry_over ==
    /\ At("returned") \/ At("raised")
    /\ res' = Idle
    /\ UNCHANGED store

Answer(op, arg, outcomes) ==
    /\ res = Idle
    /\ \E val \in outcomes : res' = [op |-> op, arg |-> arg, val |-> val]
    /\ UNCHANGED store

get_node(node_id) == Answer("get_node", node_id, GetNodeOutcomes(store, node_id))
get_owner(node_id) == Answer("get_owner", node_id, GetOwnerOutcomes(store, node_id))
downstream(node_id) == Answer("downstream", node_id, {DownstreamList(store, node_id)})
upstream(node_id) == Answer("upstream", node_id, {UpstreamList(store, node_id)})
path(from_id, to_id) == Answer("path", <<from_id, to_id>>, PathOutcomes(store, from_id, to_id))
blast_radius(node_id) == Answer("blast_radius", node_id, BlastRadiusOutcomes(store, node_id))

\* ------------------------------------------- Spec: the graph store adapter
NodeBatches == BoundedSeq(NodeInputs(Ids, NodeTypes, {NoMeta}), MaxBatch)
EdgeBatches == BoundedSeq(EdgeInputs(Ids, EdgeTypes), MaxBatch)

WriteNodes == \E ns \in NodeBatches : write_nodes(ns, MaxNodes)
WriteEdges == \E es \in EdgeBatches : write_edges(es, MaxRels)
Next == WriteNodes \/ WriteEdges \/ Return

Spec == Init /\ [][Next]_vars

\* ------------------------------------- SpecIngest: repeated ingestion runs
IngestIds == {IdNames[1], IdNames[2]}
IngestNodeBatches == BoundedSeq(NodeInputs(IngestIds, NodeTypes, {NoMeta}), MaxBatch)
IngestEdgeBatches == BoundedSeq(EdgeInputs(IngestIds, EdgeTypes), MaxBatch)

IngestTwice ==
    /\ res = Idle
    /\ \E ns \in IngestNodeBatches :
        /\ BagCardinality(FoldNodes(store, ns).nodes) <= MaxNodes
        /\ \E es \in IngestEdgeBatches : ingest_twice(ns, es)
IngestReturn == Return

NextIngest == IngestTwice \/ IngestReturn

SpecIngest == Init /\ [][NextIngest]_vars

\* ------------------------------------------ SpecQuery: the query engine
QueryIds == Ids \cup {MissingId}

\* every id as a service, and the first id as a database too: one id that two
\* labels can carry is what the queries need to meet several nodes of one id
QueryNodeBatches ==
    BoundedSeq(NodeInputs(Ids, {"service"}, {NoMeta})
                \cup NodeInputs({IdNames[1]}, {"database"}, {NoMeta}), MaxBatch)

QWriteNodes == \E ns \in QueryNodeBatches : write_nodes(ns, MaxNodes)
QWriteEdges == \E es \in EdgeBatches : write_edges(es, MaxRels)
GetNode == \E i \in QueryIds : get_node(i)
GetOwner == \E i \in QueryIds : get_owner(i)
Downstream == \E i \in QueryIds : downstream(i)
Upstream == \E i \in QueryIds : upstream(i)
Path == \E i, j \in QueryIds : path(i, j)
BlastRadius == \E i \in QueryIds : blast_radius(i)

QReturn == Return

NextQuery ==
    \/ QWriteNodes \/ QWriteEdges
    \/ GetNode \/ GetOwner \/ Downstream \/ Upstream \/ Path \/ BlastRadius
    \/ QReturn

SpecQuery == Init /\ [][NextQuery]_vars

\* --------------------------------- SpecMerge: node writes with metadata
MergeIds == {IdNames[1]}
MetaKeys == {"image", "lead"}
\* None, two scalars, a list of scalars, a nested mapping
MetaValues == {<<"none", 0>>, <<"scalar", 1>>, <<"scalar", 2>>, <<"scalars", 1>>, <<"dict", 1>>}
Metas == UNION {[K -> MetaValues] : K \in SUBSET MetaKeys}
MergeNodeInputs == NodeInputs(MergeIds, NodeTypes, Metas)

MWriteNodes == \E ns \in BoundedSeq(MergeNodeInputs, MaxBatch) : write_nodes(ns, MaxNodes)
MReturn == Return

NextMerge == MWriteNodes \/ MReturn

SpecMerge == Init /\ [][NextMerge]_vars

\* ------------------------------ SpecBlast: ownership and blast radius
BlastIds == {IdNames[1], IdNames[2], IdNames[3]}

BWriteNodes ==
    \E ns \in BoundedSeq(NodeInputs(BlastIds, {"service"}, {NoMeta}), MaxBatch) :
        write_nodes(ns, BlastMaxNodes)
BWriteEdges ==
    \E es \in BoundedSeq(EdgeInputs(BlastIds, EdgeTypes), MaxBatch) : write_edges(es, BlastMaxRels)
BGetOwner == \E i \in BlastIds : get_owner(i)
BBlastRadius == \E i \in BlastIds : blast_radius(i)
BReturn == Return

NextBlast == BWriteNodes \/ BWriteEdges \/ BGetOwner \/ BBlastRadius \/ BReturn

SpecBlast == Init /\ [][NextBlast]_vars

\* ------------------------------------------- SpecPath: shortest paths
PathIds == {IdNames[1], IdNames[2], IdNames[3]}

PWriteNodes ==
    \E ns \in BoundedSeq(NodeInputs(PathIds, {"service"}, {NoMeta})
                          \cup NodeInputs({IdNames[1]}, {"database"}, {NoMeta}), MaxBatch) :
        write_nodes(ns, PathMaxNodes)
PWriteEdges ==
    \E es \in BoundedSeq(EdgeInputs(PathIds, {"DEPENDS_ON"}), MaxBatch) :
        write_edges(es, PathMaxRels)
\* between two different ids: what path does from an id to itself is PathOutcomes'
\* first branch, which SpecQuery covers
PPath == \E i, j \in PathIds : i # j /\ path(i, j)
PReturn == Return

NextPath == PWriteNodes \/ PWriteEdges \/ PPath \/ PReturn

SpecPath == Init /\ [][NextPath]_vars

\* ------------------------------- SpecTeams: ownership registries end to end
N_api == <<"a", "p", "i">>
N_a_db == <<"a">> \o S_db
TeamNames == {<<"x">>, <<"y">>}
ResourceNames == {N_api, N_a_db}

\* the entries of a registry: a team with or without a name that lists no
\* resource or one
TeamEntries ==
    {[name |-> n, lead |-> <<>>, owns |-> o] :
        n \in TeamNames \cup {<<>>}, o \in {<<>>} \cup {<<r>> : r \in ResourceNames}}
Registries ==
    {[teams |-> ts] : ts \in {<<>>} \cup {<<t>> : t \in TeamEntries}
                              \cup {<<t, u>> : t \in TeamEntries, u \in TeamEntries}}

TeamIds == {NodeId(S_team, n) : n \in TeamNames}
ResourceIds == {NodeId(Chars(Teams_infer_resource_type(r)), r) : r \in ResourceNames}

\* relationships from elsewhere: what a resource depends on, and a team under a team
TeamsEdgeInputs ==
    EdgeInputs(ResourceIds, {"DEPENDS_ON"}) \cup
    {[from |-> f, to |-> t, type |-> "DEPENDS_ON"] : f \in ResourceIds, t \in TeamIds} \cup
    EdgeInputs(TeamIds, {"OWNED_BY"})

RegistryOwner ==
    \E data \in Registries : \E r \in ResourceNames : registry_owner(data, r, TeamsMaxRels)
TWriteEdges == \E e \in TeamsEdgeInputs : write_edges(<<e>>, TeamsMaxRels)
TGetOwner == \E i \in ResourceIds \cup TeamIds : get_owner(i)
TReturn == Return

NextTeams == RegistryOwner \/ TWriteEdges \/ TGetOwner \/ TReturn

SpecTeams == Init /\ [][NextTeams]_vars

\* ------------------------------------------ SpecConnect: the connectors
N_db == <<"d", "b">>
N_redis_db == S_redis \o S_db
I_Mongo == <<"M", "o", "n", "g", "o", ":", "6">>
I_Redis == <<"R", "e", "d", "i", "s">>
I_nginx == <<"n", "g", "i", "n", "x">>

ComposeNames == {N_api, N_db, N_a_db}
ComposeImages == {<<>>, S_postgres, I_Redis}
DependsOnLists ==
    {<<>>} \cup {<<d>> : d \in ComposeNames} \cup {<<d, e>> : d \in ComposeNames, e \in ComposeNames}
ComposeDefs == {[image |-> im, depends_on |-> ds] : im \in ComposeImages, ds \in DependsOnLists}
ComposeDocs ==
    {[services |-> ss] :
        ss \in {<<>>} \cup {<<<<n, d>>>> : n \in ComposeNames, d \in ComposeDefs \cup {Null}}
                \cup {two \in {<<<<n, d>>, <<m, e>>>> :
                                    n \in ComposeNames, m \in ComposeNames,
                                    d \in ComposeDefs, e \in ComposeDefs \cup {Null}} :
                            two[1][1] # two[2][1]}}

TeamsDocs ==
    Registries \cup {[teams |-> <<t, Null>>] : t \in TeamEntries}

K8sDocs ==
    {[kind |-> k, metadata |-> m] :
        k \in {"Deployment", "Service", "ConfigMap", ""},
        m \in {Null, [name |-> <<>>], [name |-> N_api]}}

InferNames == {N_api, N_db, N_a_db, S_redis, N_redis_db, S_redis \o N_api, S_db}
InferImages == {<<>>, S_postgres, S_mysql, I_Mongo, S_redis, I_Redis, I_nginx, S_redis \o S_mongo}
InferDefs == {None} \cup {[image |-> im, depends_on |-> <<>>] : im \in InferImages}

Parsed(connector, data, val) ==
    /\ res = Idle
    /\ res' = [op |-> "parse", connector |-> connector, data |-> data, val |-> val]
    /\ UNCHANGED store

ComposeParse == \E data \in ComposeDocs : Parsed("DockerComposeConnector", data, Compose_parse(data))
TeamsParse == \E data \in TeamsDocs : Parsed("TeamsConnector", data, Teams_parse(data))
K8sParse == \E data \in K8sDocs : Parsed("KubernetesConnector", data, K8s_parse(data))
InferResourceType ==
    /\ res = Idle
    /\ \E name \in InferNames, definition \in InferDefs :
          res' = [op |-> "infer_resource_type", name |-> name, definition |-> definition,
                  compose |-> Compose_infer_resource_type(name, definition),
                  teams |-> Teams_infer_resource_type(name)]
    /\ UNCHANGED store
CReturn == Return

NextConnect == ComposeParse \/ TeamsParse \/ K8sParse \/ InferResourceType \/ CReturn

SpecConnect == Init /\ [][NextConnect]_vars

\* ------------------------------------ SpecPipeline: the ingestion pipeline
D_team == [name |-> <<"x">>, lead |-> <<>>, owns |-> <<N_api>>]
D_services == <<<<N_api, [image |-> <<>>, depends_on |-> <<N_db>>]>>>>

\* documents: no mapping; a mapping no connector knows; a registry, and one
\* with an entry that is no mapping; a compose file; a workload manifest; a
\* mapping with the keys of two connectors, sound and not
PipelineDocs ==
    {None,
     [note |-> <<>>],
     [teams |-> <<D_team>>],
     [teams |-> <<Null>>],
     [services |-> D_services],
     [kind |-> "Deployment", metadata |-> [name |-> N_api]],
     [teams |-> <<D_team>>, services |-> D_services],
     [teams |-> <<Null>>, services |-> D_services]}

PipelineFiles ==
    {Invalid, Unreadable, Loaded(<<>>)} \cup {Loaded(<<d>>) : d \in PipelineDocs}
        \cup {Loaded(<<d, e>>) : d \in PipelineDocs, e \in PipelineDocs}

\* main's list, other orders of it, the lists of the tests, and lists with a
\* connector whose can_handle raises
ConnectorLists ==
    {<<"TeamsConnector", "DockerComposeConnector", "KubernetesConnector">>,
     <<"DockerComposeConnector", "TeamsConnector", "KubernetesConnector">>,
     <<"KubernetesConnector">>,
     <<"TeamsConnector", "Unsteady", "DockerComposeConnector">>}

run_ingestion(files, connectors) ==
    /\ res = Idle
    /\ res' = [op |-> "run_ingestion", files |-> files, connectors |-> connectors,
               val |-> RunIngestion(files, connectors)]
    /\ UNCHANGED store

RunOneFile == \E f \in PipelineFiles, cs \in ConnectorLists : run_ingestion(<<f>>, cs)
\* a second file of the directory: one that does not load, one a connector
\* takes, one none takes, one whose parse raises
OtherFiles ==
    {Invalid, Unreadable, Loaded(<<[teams |-> <<D_team>>]>>), Loaded(<<[note |-> <<>>]>>),
     Loaded(<<[teams |-> <<Null>>]>>)}

RunTwoFiles ==
    \E f \in PipelineFiles, g \in OtherFiles, cs \in ConnectorLists :
        run_ingestion(<<f, g>>, cs) \/ run_ingestion(<<g, f>>, cs)
PReturnRun == Return

NextPipeline == RunOneFile \/ RunTwoFiles \/ PReturnRun

SpecPipeline == Init /\ [][NextPipeline]_vars

\* ------------------------------- SpecRetry: write_with_retry and queries
RetryIds == {IdNames[1], IdNames[2]}
RetryNode(i) == [id |-> i, type |-> "service", name |-> "n", source |-> "src", metadata |-> NoMeta]
RetryEdge(f, t) == [from |-> f, to |-> t, type |-> "DEPENDS_ON"]

\* the node and edge lists of a run: none, one, or two
RetryNodeLists ==
    {<<>>, <<RetryNode(IdNames[1])>>, <<RetryNode(IdNames[2])>>,
     <<RetryNode(IdNames[1]), RetryNode(IdNames[2])>>}
RetryEdgeLists ==
    {<<>>, <<RetryEdge(IdNames[1], IdNames[2])>>,
     <<RetryEdge(IdNames[1], IdNames[2]), RetryEdge(IdNames[2], IdNames[1])>>,
     <<RetryEdge(IdNames[2], IdNames[2])>>}

WriteWithRetry ==
    \E ns \in RetryNodeLists, es \in RetryEdgeLists, retries \in 1..MaxRetries :
        write_with_retry_call(ns, es, retries)
RetryWriteNodes == retry_write_nodes
RetryWriteEdges == retry_write_edges
RetryExcept == retry_except
RetryOver == retry_over
RGetNode == \E i \in RetryIds : get_node(i)
RDownstream == \E i \in RetryIds : downstream(i)
RUpstream == \E i \in RetryIds : upstream(i)
\* the caller takes what a query returned
RReturn == res.op \in {"get_node", "downstream", "upstream"} /\ Return

NextRetry ==
    \/ WriteWithRetry \/ RetryWriteNodes \/ RetryWriteEdges \/ RetryExcept \/ RetryOver
    \/ RGetNode \/ RDownstream \/ RUpstream \/ RReturn

SpecRetry == Init /\ [][NextRetry]_vars

\* a call that has begun goes on: its steps are those of one thread, and the
\* sleeps between them end
SpecRetryFair ==
    /\ SpecRetry
    /\ WF_vars(RetryWriteNodes) /\ WF_vars(RetryWriteEdges)
    /\ WF_vars(RetryExcept) /\ WF_vars(RetryOver)

\* ------------------------- SpecRetryAny: write_with_retry, any retries
WriteWithRetryAny ==
    \E ns \in RetryNodeLists, es \in RetryEdgeLists, retries \in (0 - 1)..MaxRetries :
        write_with_retry_call(ns, es, retries)

NextRetryAny ==
    WriteWithRetryAny \/ RetryWriteNodes \/ RetryWriteEdges \/ RetryExcept \/ RetryOver

SpecRetryAny == Init /\ [][NextRetryAny]_vars

\* --------------------------------------- SpecTraverse: the closures as lists
traversal(op, node_id, forward) ==
    Answer(op, node_id, {TraversalList(store, node_id, forward)})

VWriteNodes == \E ns \in QueryNodeBatches : write_nodes(ns, MaxNodes)
VWriteEdges ==
    \E es \in BoundedSeq(EdgeInputs(Ids, {"DEPENDS_ON"}), MaxBatch) : write_edges(es, MaxRels)
VDownstream == \E i \in QueryIds : traversal("downstream_list", i, TRUE)
VUpstream == \E i \in QueryIds : traversal("upstream_list", i, FALSE)
VReturn == Return

NextTraverse == VWriteNodes \/ VWriteEdges \/ VDownstream \/ VUpstream \/ VReturn

SpecTraverse == Init /\ [][NextTraverse]_vars

\* ------------------------------------------- SpecList: get_nodes by type
ListTypes == {"service", "database", "cache", "team", "k8s_deployment", "k8s_service"}
ListValues == {<<"scalar", 1>>, <<"scalar", 2>>}
ListMetas == UNION {[K -> ListValues] : K \in SUBSET {"image"}}
ListNodeInputs == NodeInputs(Ids, {"service", "team", "k8s_deployment"}, ListMetas)

get_nodes(type, filters) ==
    Answer("get_nodes", [type |-> type, filters |-> filters], {get_nodes_list(store, type, filters)})

LWriteNodes == \E ns \in BoundedSeq(ListNodeInputs, MaxBatch) : write_nodes(ns, MaxNodes)
GetNodes == \E type \in ListTypes, filters \in ListMetas : get_nodes(type, filters)
LReturn == Return

NextList == LWriteNodes \/ GetNodes \/ LReturn

SpecList == Init /\ [][NextList]_vars

\* ------------------------------------------- SpecWatch: the change watcher
\* time is counted in half seconds: cooldown_seconds = 1.5
cooldown_seconds == 3

\* time.time() when start_watcher is called: any time that is further from
\* the initial last_trigger_time of 0.0 than the cooldown
Epoch == cooldown_seconds

S_yml == <<".", "y", "m", "l">>
S_yaml == <<".", "y", "a", "m", "l">>
\* the events of the data directory: a .yml file, a .yaml file, another file,
\* a directory named as a .yml file
WatchEvents ==
    {[src_path |-> <<"a">> \o S_yml, is_directory |-> FALSE],
     [src_path |-> <<"a">> \o S_yaml, is_directory |-> FALSE],
     [src_path |-> <<"a", ".", "t", "x", "t">>, is_directory |-> FALSE],
     [src_path |-> <<"a">> \o S_yml, is_directory |-> TRUE]}

\* what run_ingestion finds in the data directory
WatchNodes == <<RetryNode(IdNames[1]), RetryNode(IdNames[2])>>
WatchEdges == <<RetryEdge(IdNames[1], IdNames[2])>>

Watching == res.op = "start_watcher"

\* the runs of run_ingest in progress: that of start_watcher and that of the
\* observer thread
RunsInProgress ==
    (IF res.main = "ingest" THEN 1 ELSE 0) + (IF res.observer = "handling" THEN 1 ELSE 0)

\* start_watcher with observer.start() moved before the initial ingest
start_watcher_eager ==
    /\ res = Idle
    /\ res' = [op |-> "start_watcher", main |-> "ingest", observer |-> "idle", now |-> Epoch,
               last_trigger_time |-> 0, previous |-> 0, queue |-> <<>>, failed |-> FALSE]
    /\ UNCHANGED store

\* start_watcher is called: the handler is built when the observer is
\* scheduled, the initial run_ingest begins, the observer is not started yet
start_watcher ==
    /\ res = Idle
    /\ res' = [op |-> "start_watcher", main |-> "ingest", observer |-> "off", now |-> Epoch,
               last_trigger_time |-> 0, previous |-> 0, queue |-> <<>>, failed |-> FALSE]
    /\ UNCHANGED store

\* run_ingest() ends: main() has written what run_ingestion found, or an
\* exception left the store with the nodes written before it
run_ingest(raised) ==
    IF raised
    THEN \E k \in 0..Len(WatchNodes) : store' = FoldNodes(store, SubSeq(WatchNodes, 1, k))
    ELSE store' = FoldEdges(FoldNodes(store, WatchNodes), WatchEdges)

\* the initial run ends, its exception caught; then observer.start() and the
\* sleep loop
initial_ingest ==
    /\ Watching /\ res.main = "ingest"
    /\ \E raised \in BOOLEAN :
          /\ run_ingest(raised)
          /\ res' = [res EXCEPT !.main = "sleep",
                                !.observer = IF @ = "off" THEN "idle" ELSE @,
                                !.failed = @ \/ raised]

\* the emitter thread of the started observer queues a modification event
file_modified ==
    /\ Watching /\ res.observer # "off" /\ res.observer # "dead"
    /\ Len(res.queue) < MaxQueue
    /\ \E event \in WatchEvents :
          res' = [res EXCEPT !.queue = Append(@, event @@ [at |-> res.now])]
    /\ UNCHANGED store

\* time passes
tick ==
    /\ Watching /\ res.now < Epoch + MaxClock
    /\ res' = [res EXCEPT !.now = @ + 1]
    /\ UNCHANGED store

\* an event is a change of a structural file
qualifies(event) ==
    /\ ~event.is_directory
    /\ endswith(event.src_path, S_yml) \/ endswith(event.src_path, S_yaml)

\* the observer thread, which dispatches one event at a time, calls
\* on_modified(event), up to the call of run_ingest
on_modified ==
    /\ Watching /\ res.observer = "idle" /\ res.queue # <<>>
    /\ LET event == Head(res.queue)
           trigger == /\ qualifies(event)
                      /\ ~(res.now - res.last_trigger_time < cooldown_seconds)
       IN  res' = [res EXCEPT
                    !.queue = Tail(@),
                    !.last_trigger_time = IF trigger THEN res.now ELSE @,
                    !.previous = IF trigger THEN res.last_trigger_time ELSE @,
                    !.observer = IF trigger THEN "handling" ELSE @]
    /\ UNCHANGED store

\* on_modified without its except clause: the exception leaves the handler
on_modified_ingest_uncaught ==
    /\ Watching /\ res.observer = "handling"
    /\ \E raised \in BOOLEAN :
          /\ run_ingest(raised)
          /\ res' = [res EXCEPT !.observer = IF raised THEN "dead" ELSE "idle",
                                !.failed = @ \/ raised]

\* the run_ingest of on_modified ends, its exception caught, and on_modified
\* returns
on_modified_ingest ==
    /\ Watching /\ res.observer = "handling"
    /\ \E raised \in BOOLEAN :
          /\ run_ingest(raised)
          /\ res' = [res EXCEPT !.observer = "idle", !.failed = @ \/ raised]

StartWatcher == start_watcher
InitialIngest == initial_ingest
FileModified == file_modified
Tick == tick
OnModified == on_modified
OnModifiedIngest == on_modified_ingest

NextWatch ==
    StartWatcher \/ InitialIngest \/ FileModified \/ Tick \/ OnModified \/ OnModifiedIngest

SpecWatch == Init /\ [][NextWatch]_vars

\* the threads of the watcher run on: a run of run_ingest ends, and the
\* observer thread dispatches what is queued; nothing obliges a file to change
SpecWatchFair ==
    /\ SpecWatch
    /\ WF_vars(InitialIngest) /\ WF_vars(OnModified) /\ WF_vars(OnModifiedIngest)
    /\ WF_vars(Tick)

\* ------------------------- SpecCross: one resource under two connectors
CrossNames == {N_api, N_db, N_a_db, S_redis \o N_api}
CrossImages == {<<>>, S_postgres, I_Redis, I_nginx}
CrossConnectors == <<"TeamsConnector", "DockerComposeConnector", "KubernetesConnector">>

\* main() on an empty database, the data directory holding a compose file that
\* defines the service `name` and a registry in which `team` owns `name`
main(name, image, team) ==
    /\ res = Idle
    /\ store = EmptyStore
    /\ LET compose == [services |-> <<<<name, [image |-> image, depends_on |-> <<>>]>>>>]
           teams == [teams |-> <<[name |-> team, lead |-> <<>>, owns |-> <<name>>]>>]
           run == RunIngestion(<<Loaded(<<compose>>), Loaded(<<teams>>)>>, CrossConnectors)
       IN  /\ store' = FoldEdges(FoldNodes(store, run.nodes), run.edges)
           /\ res' = [op |-> "main", name |-> name, team |-> team,
                      compose_id |-> Compose_parse(compose)[1][1].id,
                      teams_id |-> Teams_parse(teams)[1][2].id,
                      val |-> None]

Main == \E name \in CrossNames, image \in CrossImages, team \in TeamNames : main(name, image, team)
XGetOwner ==
    \E type \in {"service", "database", "cache"}, name \in CrossNames :
        get_owner(NodeId(Chars(type), name))
XReturn == Return

NextCross == Main \/ XGetOwner \/ XReturn

SpecCross == Init /\ [][NextCross]_vars

\* ------------------- SpecSnapshot: blast_radius beside a running ingestion
\* blast_radius query by query: each _run opens its own session and its query
\* is a transaction of its own, so the store may change between two of them
Blasting == res.op = "blast_radius_call"

BlastAt(pc) == Blasting /\ res.pc = pc

blast_radius_call(node_id) ==
    /\ res = Idle
    /\ res' = [op |-> "blast_radius_call", pc |-> "get_node", arg |-> node_id,
               root |-> None, down |-> {}, up |-> {}, impacted |-> {}, todo |-> {},
               teams |-> {}, seen |-> {store}, val |-> None]
    /\ UNCHANGED store

\* root = self.get_node(node_id); if not root: return None
blast_get_node ==
    /\ BlastAt("get_node")
    /\ \E root \in GetNodeOutcomes(store, res.arg) :
          res' = [res EXCEPT !.root = root,
                             !.pc = IF root = None THEN "returned" ELSE "downstream"]
    /\ UNCHANGED store

\* downstream_nodes = self.downstream(node_id)
blast_downstream ==
    /\ BlastAt("downstream")
    /\ res' = [res EXCEPT !.down = DownstreamList(store, res.arg), !.pc = "upstream"]
    /\ UNCHANGED store

\* upstream_nodes = self.upstream(node_id), and impacted_nodes
blast_upstream ==
    /\ BlastAt("upstream")
    /\ LET up == UpstreamList(store, res.arg)
       IN  \E impacted \in OnePerId(up \cup {d \in res.down : d.id \notin IdsOf(up)}) :
              res' = [res EXCEPT !.up = up, !.impacted = impacted,
                                 !.todo = IdsOf(impacted), !.pc = "owners"]
    /\ UNCHANGED store

\* one iteration of the loop over impacted_nodes: owner = self.get_owner(node["id"])
blast_get_owner ==
    /\ BlastAt("owners")
    /\ \E i \in res.todo : \E owner \in GetOwnerOutcomes(store, i) :
          res' = [res EXCEPT
                    !.todo = @ \ {i},
                    !.teams = IF owner = None THEN @
                              ELSE {t \in @ : t.id # owner.id} \cup {owner}]
    /\ UNCHANGED store

\* the return of the dict
blast_return ==
    /\ BlastAt("owners") /\ res.todo = {}
    /\ res' = [res EXCEPT !.pc = "returned",
                          !.val = [node |-> res.root, downstream |-> res.impacted,
                                   upstream |-> res.up, teams |-> res.teams]]
    /\ UNCHANGED store

blast_over ==
    /\ BlastAt("returned")
    /\ res' = Idle
    /\ UNCHANGED store

\* one statement of an ingestion that runs beside the call commits
concurrent_merge(after) ==
    /\ Blasting /\ res.pc # "returned"
    /\ after # store
    /\ InBounds(after, BlastMaxNodes, MaxRels)
    /\ store' = after
    /\ res' = [res EXCEPT !.seen = @ \cup {after}]

SnapEdgeInputs ==
    EdgeInputs(BlastIds, {"DEPENDS_ON"}) \cup
    {[from |-> f, to |-> IdNames[3], type |-> "OWNED_BY"] : f \in BlastIds \ {IdNames[3]}}

SWriteNodes ==
    \E ns \in BoundedSeq(NodeInputs(BlastIds, {"service"}, {NoMeta}), MaxBatch) :
        write_nodes(ns, BlastMaxNodes)
SWriteEdges == \E es \in BoundedSeq(SnapEdgeInputs, MaxBatch) : write_edges(es, MaxRels)
SReturn == res.op \in {"write_nodes", "write_edges"} /\ Return
BlastRadiusCall == \E i \in BlastIds : blast_radius_call(i)
BlastGetNode == blast_get_node
BlastDownstream == blast_downstream
BlastUpstream == blast_upstream
BlastGetOwner == blast_get_owner
BlastReturn == blast_return
BlastOver == blast_over
ConcurrentMergeNode ==
    \E node \in NodeInputs(BlastIds, {"service"}, {NoMeta}) : concurrent_merge(MergeNode(store, node))
ConcurrentMergeRel == \E edge \in SnapEdgeInputs : concurrent_merge(MergeRel(store, edge))

NextSnapshot ==
    \/ SWriteNodes \/ SWriteEdges \/ SReturn
    \/ BlastRadiusCall \/ BlastGetNode \/ BlastDownstream \/ BlastUpstream
    \/ BlastGetOwner \/ BlastReturn \/ BlastOver
    \/ ConcurrentMergeNode \/ ConcurrentMergeRel

SpecSnapshot == Init /\ [][NextSnapshot]_vars

\* ---------------------------------------------------------------- claims
NothingWritten == [nodes |-> EmptyBag, rels |-> EmptyBag]

\* C1: an ingestion run (write_nodes then write_edges) repeated on the same
\* nodes and edges leaves exactly the nodes and the relationships of the first
\* run, each as many times as the first run left it.
C1_IdempotentIngestion ==
    res.op = "ingest_twice" => store.nodes = res.once.nodes /\ store.rels = res.once.rels

C1_Witness ==
    /\ res.op = "ingest_twice"
    /\ BagCardinality(store.nodes) >= 2
    /\ BagCardinality(store.rels) >= 1

\* C2: the store never holds two nodes of one id, whatever types the written
\* nodes carry.
C2_OneNodePerId == \A i \in Ids : Cardinality(MatchId(store, i)) <= 1

\* C4: every stored relationship has both its endpoints among the stored
\* nodes, and a write_edges call leaves nothing in the store, node or
\* relationship, that comes from an edge naming an id no node has, and raises
\* nothing.
C4_NoHalfEdges ==
    /\ \A r \in RelSet(store) : r[1] \in NodeSet(store) /\ r[3] \in NodeSet(store)
    /\ res.op = "write_edges" => res.from_dangling = NothingWritten /\ res.val = None

C4_Witness ==
    /\ res.op = "write_edges"
    /\ res.dangling >= 1
    /\ store.rels # EmptyBag

\* the ids that one or more DEPENDS_ON hops lead to from the nodes of id i,
\* as the closure of the one-hop relation
RECURSIVE HopsFrom(_, _, _)
HopsFrom(s, front, k) ==
    LET next == {r[3] : r \in {x \in DependsOn(s) : x[1] \in front}}
    IN  IF k = 0 THEN {} ELSE next \cup HopsFrom(s, next, k - 1)

ReachedIds(s, i) ==
    {s.props[k]["id"] : k \in HopsFrom(s, MatchId(s, i), Cardinality(DependsOn(s)))}

Stored(i) == MatchId(store, i) # {}

\* C5: no node is in its own downstream or upstream list, cycles and
\* self-loops included.
C5_NoSelfInclusion ==
    res.op \in {"downstream", "upstream"} => res.arg \notin IdsOf(res.val)

\* C6: B is in downstream(A) exactly when A is in upstream(B), both being the
\* ids joined by one or more DEPENDS_ON hops; so the two ends of every stored
\* DEPENDS_ON relationship are in each other's lists.
C6_TraversalSymmetry ==
    /\ res.op = "downstream" =>
          /\ \A b \in QueryIds :
                b \in IdsOf(res.val) <=> res.arg \in IdsOf(UpstreamList(store, b))
          /\ IdsOf(res.val) = ReachedIds(store, res.arg)
          /\ \A r \in DependsOn(store) :
                store.props[r[1]]["id"] = res.arg => store.props[r[3]]["id"] \in IdsOf(res.val)
    /\ res.op = "upstream" =>
          /\ \A a \in QueryIds :
                a \in IdsOf(res.val) <=> res.arg \in IdsOf(DownstreamList(store, a))
          /\ IdsOf(res.val) = {a \in QueryIds : res.arg \in ReachedIds(store, a)}
          /\ \A r \in DependsOn(store) :
                store.props[r[3]]["id"] = res.arg => store.props[r[1]]["id"] \in IdsOf(res.val)

C6_Witness ==
    /\ res.op = "downstream"
    /\ Cardinality(res.val) >= 2
    /\ \E d \in res.val : d.id # res.arg /\ res.arg \in IdsOf(UpstreamList(store, d.id))

\* C7: the downstream field of blast_radius(id) has the ids of downstream(id)
\* and its upstream field the ids of upstream(id).
C7_BlastRadiusFields ==
    res.op = "blast_radius" /\ res.val # None =>
        /\ IdsOf(res.val.downstream) = IdsOf(DownstreamList(store, res.arg))
        /\ IdsOf(res.val.upstream) = IdsOf(UpstreamList(store, res.arg))

\* C9: a query about an id no stored node has returns its absent value (None,
\* or the empty list of downstream and upstream) and raises nothing, and
\* blast_radius returns None exactly when no stored node has the id.
C9_NotFoundIsAValue ==
    /\ res.op \in {"get_node", "get_owner"} /\ ~Stored(res.arg) => res.val = None
    /\ res.op \in {"downstream", "upstream"} /\ ~Stored(res.arg) => res.val = {}
    /\ res.op = "path" /\ (~Stored(res.arg[1]) \/ ~Stored(res.arg[2])) => res.val = None
    /\ res.op = "blast_radius" => (res.val = None <=> ~Stored(res.arg))
    /\ res.op = "blast_radius" => res.val # Raise

C9_Witness ==
    /\ res.op = "blast_radius"
    /\ res.arg = MissingId
    /\ res.val = None
    /\ store.rels # EmptyBag

\* the flattened metadata of node n merged over the properties old
MergedOver(n, old, new) ==
    LET flat == _flatten_metadata(n.metadata)
    IN  \A key \in MetaKeys :
            /\ key \in DOMAIN flat => key \in DOMAIN new /\ new[key] = flat[key]
            /\ key \notin DOMAIN flat /\ key \in DOMAIN old =>
                  key \in DOMAIN new /\ new[key] = old[key]
            /\ key \notin DOMAIN flat /\ key \notin DOMAIN old => key \notin DOMAIN new

SecondWrite(n) ==
    /\ write_nodes(<<n>>, MaxNodes)
    /\ Cardinality(MatchId(store, n.id)) = 1

\* C3: a node written when one node of its id is stored leaves a single node
\* of that id, which has every metadata property of the later write with the
\* later value, and every property only the earlier writes gave with its
\* earlier value, and no other metadata property.
C3_MergeUnion ==
    [][\A n \in MergeNodeInputs :
        SecondWrite(n) =>
            /\ Cardinality(MatchId(store', n.id)) = 1
            /\ \A k \in MatchId(store, n.id), l \in MatchId(store', n.id) :
                  MergedOver(n, store.props[k], store'.props[l])]_vars

\* the ids of every team an OWNED_BY relationship gives to a node of the ids
OwnerIdsOf(s, ids) == {s.props[t]["id"] : t \in UNION {OwnerRows(s, i) : i \in ids}}

\* C8: the team ids of blast_radius(n) are the ids of the owners of every node
\* in upstream(n) or downstream(n).
C8_BlastRadiusTeams ==
    res.op = "blast_radius" /\ res.val # None =>
        IdsOf(res.val.teams) =
            OwnerIdsOf(store, IdsOf(UpstreamList(store, res.arg))
                                \cup IdsOf(DownstreamList(store, res.arg)))

\* the least number of DEPENDS_ON hops from a node of id i to a node of id j
MinHops(s, i, j) ==
    CHOOSE k \in 1..Cardinality(DependsOn(s)) :
        /\ j \in {s.props[n]["id"] : n \in HopsFrom(s, MatchId(s, i), k)}
        /\ \A m \in 1..(k - 1) :
              j \notin {s.props[n]["id"] : n \in HopsFrom(s, MatchId(s, i), m)}

\* C10: a path result starts at from and ends at to, each consecutive pair of
\* its nodes is joined by a stored DEPENDS_ON relationship in that direction,
\* it has one relationship fewer than nodes, all DEPENDS_ON, and no path from
\* from to to in the store has fewer relationships.
C10_ShortestPath ==
    res.op = "path" /\ res.val \notin {None, Raise} =>
        LET nodes == res.val.nodes
            rels == res.val.relationships
        IN  /\ nodes[1] = res.arg[1]
            /\ nodes[Len(nodes)] = res.arg[2]
            /\ Len(rels) = Len(nodes) - 1
            /\ \A i \in 1..Len(rels) :
                  /\ rels[i] = "DEPENDS_ON"
                  /\ \E r \in DependsOn(store) :
                        /\ store.props[r[1]]["id"] = nodes[i]
                        /\ store.props[r[3]]["id"] = nodes[i + 1]
            /\ Len(rels) = MinHops(store, res.arg[1], res.arg[2])

C12_OwnershipEndToEnd ==
    /\ res.op = "registry_owner" =>
          \A T \in TeamNames :
              res.listing = {T} /\ res.owned_before \subseteq {NodeId(S_team, T)} =>
                  /\ res.val # None
                  /\ res.val.id = NodeId(S_team, T)
                  /\ res.val.labels = {"Team"}
    /\ res.op \in {"registry_owner", "get_owner"} /\ res.val # None =>
          \E r \in RelSet(store) :
              /\ r[2] = "OWNED_BY"
              /\ store.props[r[1]]["id"] = res.arg
              /\ _node_to_dict(store, r[3]) = res.val

C12_Witness ==
    /\ res.op = "registry_owner"
    /\ Cardinality(res.listing) = 1
    /\ res.val # None
    /\ res.owned_before \subseteq {res.val.id}
    /\ \E r \in DependsOn(store), o \in RelSet(store) :
          /\ store.props[r[1]]["id"] = res.arg
          /\ o[2] = "OWNED_BY" /\ o[1] = r[3]
          /\ store.props[o[3]]["id"] # res.val.id

\* the id the claim gives to name n of a compose document: its type from its
\* own definition when the document defines it, from its name alone otherwise
DefinitionOf(services, n) ==
    IF \E i \in 1..Len(services) : services[i][1] = n
    THEN services[CHOOSE i \in 1..Len(services) : services[i][1] = n][2]
    ELSE None

ComposeId(services, n) ==
    NodeId(Chars(Compose_infer_resource_type(n, DefinitionOf(services, n))), n)

\* C13: DockerComposeConnector.parse returns one node per defined service, in
\* order, and as its edges exactly one DEPENDS_ON edge per service S and entry
\* D of S.depends_on, from the id of S to the id of D, D's type taken from its
\* own definition when the document defines D and from its name otherwise.
C13_ComposeEdges ==
    res.op = "parse" /\ res.connector = "DockerComposeConnector" /\ res.val # Raise =>
        LET services == res.data.services
            nodes == res.val[1]
            edges == res.val[2]
            entries == {<<i, k>> \in (1..Len(services)) \X (1..2) :
                            k <= Len(services[i][2].depends_on)}
            expected(e) == [from |-> ComposeId(services, services[e[1]][1]),
                            to |-> ComposeId(services, services[e[1]][2].depends_on[e[2]]),
                            type |-> "DEPENDS_ON"]
        IN  /\ Len(nodes) = Len(services)
            /\ \A i \in 1..Len(nodes) :
                  /\ nodes[i].name = services[i][1]
                  /\ nodes[i].id = ComposeId(services, services[i][1])
            /\ Len(edges) = Cardinality(entries)
            /\ \A e \in entries :
                  Cardinality({j \in 1..Len(edges) : edges[j] = expected(e)})
                    = Cardinality({f \in entries : expected(f) = expected(e)})

C13_Witness ==
    /\ res.op = "parse" /\ res.connector = "DockerComposeConnector" /\ res.val # Raise
    /\ res.val[2] = <<[from |-> NodeId(S_service, N_api), to |-> NodeId(S_database, N_db),
                       type |-> "DEPENDS_ON"],
                      [from |-> NodeId(S_service, N_api), to |-> NodeId(S_database, N_a_db),
                       type |-> "DEPENDS_ON"]>>
    /\ Len(res.val[1]) = 2

\* C14: every node a connector emits has as id its type, a hyphen and its
\* name, and a type among service, database, cache, team, k8s-deployment and
\* k8s-service.
C14_NodeIdFormat ==
    res.op = "parse" /\ res.val # Raise =>
        \A i \in 1..Len(res.val[1]) :
            LET node == res.val[1][i]
            IN  /\ node.type \in {"service", "database", "cache", "team",
                                  "k8s-deployment", "k8s-service"}
                /\ node.id = NodeId(Chars(node.type), node.name)

\* the type the policy gives to a name and the image of its definition
PolicyType(name, image) ==
    IF endswith(name, S_db) \/ contains(S_postgres, image) \/ contains(S_mysql, image)
            \/ contains(S_mongo, image)
    THEN "database"
    ELSE IF startswith(name, S_redis) \/ contains(S_redis, image)
    THEN "cache"
    ELSE "service"

\* C15: DockerComposeConnector.infer_resource_type gives database to a name
\* ending in -db or an image that mentions postgres, mysql or mongo, otherwise
\* cache to a name starting with redis or an image that mentions redis,
\* otherwise service, the image compared in lower case; and for a name without
\* a definition the two connectors' infer_resource_type give the same type.
C15_TypeInference ==
    res.op = "infer_resource_type" =>
        /\ res.compose =
              PolicyType(res.name, IF res.definition = None THEN <<>>
                                   ELSE lower(res.definition.image))
        /\ res.teams = PolicyType(res.name, <<>>)
        /\ res.definition = None => res.compose = res.teams

C15_Witness ==
    /\ res.op = "infer_resource_type"
    /\ res.name = N_redis_db
    /\ res.definition = None
    /\ res.compose = "database"
    /\ res.teams = "database"

\* the documents of a run, as <<file, document>> positions
Positions(files) ==
    {<<f, d>> \in (1..Len(files)) \X (1..2) : d <= Len(files[f].documents)}

\* the connectors of the list that accept the document
Accepting(connectors, document) ==
    {i \in 1..Len(connectors) : can_handle(connectors[i], document) = "yes"}

FirstAccepting(connectors, document) ==
    CHOOSE i \in Accepting(connectors, document) :
        \A j \in Accepting(connectors, document) : i <= j

\* C16: in run_ingestion the parse of at most one connector is called on a
\* document, that of the first connector of the list whose can_handle returns
\* true, and no connector after it is asked about the document, even one that
\* would accept it.
C16_FirstMatchDispatch ==
    res.op = "run_ingestion" =>
        \A p \in Positions(res.files) :
            LET document == res.files[p[1]].documents[p[2]]
                result == res.val.results[p[1]][p[2]]
            IN  /\ Len(result.parsed_by) <= 1
                /\ result.parsed_by # <<>> =>
                      /\ Accepting(res.connectors, document) # {}
                      /\ result.parsed_by[1] =
                            res.connectors[FirstAccepting(res.connectors, document)]
                      /\ result.asked =
                            SubSeq(res.connectors, 1, FirstAccepting(res.connectors, document))

C16_Witness ==
    /\ res.op = "run_ingestion"
    /\ \E p \in Positions(res.files) :
          /\ Cardinality(Accepting(res.connectors, res.files[p[1]].documents[p[2]])) = 2
          /\ res.val.results[p[1]][p[2]].parsed_by = <<"DockerComposeConnector">>
          /\ res.val.results[p[1]][p[2]].outcome = "matched"

\* the mappings of file f that no connector of the list accepts
Unaccepted(files, connectors, f) ==
    {d \in 1..Len(files[f].documents) :
        /\ isinstance_dict(files[f].documents[d])
        /\ \A i \in 1..Len(connectors) :
              can_handle(connectors[i], files[f].documents[d]) = "no"}

\* C17: a document no connector accepts adds no node and no edge, and the run
\* records a skip for it (the record names the document's file), also when
\* another document of the same file was matched or failed.
C17_UnmatchedSkipped ==
    res.op = "run_ingestion" =>
        \A p \in Positions(res.files) :
            p[2] \in Unaccepted(res.files, res.connectors, p[1]) =>
                /\ res.val.results[p[1]][p[2]].nodes = <<>>
                /\ res.val.results[p[1]][p[2]].edges = <<>>
                /\ \E i \in 1..Len(res.val.log) : res.val.log[i] = Printed("SKIP", p[1], "")

\* a document on which the dispatch fails: the first connector that does not
\* answer no raises, in can_handle or in parse
Fails(connectors, document) ==
    /\ isinstance_dict(document)
    /\ \E i \in 1..Len(connectors) :
          /\ \A j \in 1..(i - 1) : can_handle(connectors[j], document) = "no"
          /\ \/ can_handle(connectors[i], document) = "raise"
             \/ /\ can_handle(connectors[i], document) = "yes"
                /\ parse(connectors[i], document) = Raise

\* the files without those that do not load and without the failing documents
Sound(files, connectors) ==
    LET loads == SelectSeq(files, LAMBDA file : file.load = "ok")
    IN  [f \in 1..Len(loads) |->
            Loaded(SelectSeq(loads[f].documents, LAMBDA d : ~Fails(connectors, d)))]

Failing(files, connectors) ==
    {p \in Positions(files) : Fails(connectors, files[p[1]].documents[p[2]])}

\* C18: run_ingestion raises nothing when a file does not load or a connector
\* raises in can_handle or parse; a failing document adds no node and no edge;
\* and the nodes and edges returned are those of the run over the same files
\* without the failing files and documents.
C18_FailureIsolation ==
    res.op = "run_ingestion" =>
        /\ res.val # Raise
        /\ \A p \in Failing(res.files, res.connectors) :
              /\ res.val.results[p[1]][p[2]].nodes = <<>>
              /\ res.val.results[p[1]][p[2]].edges = <<>>
              /\ res.val.results[p[1]][p[2]].outcome = "failed"
        /\ res.val.nodes = RunIngestion(Sound(res.files, res.connectors), res.connectors).nodes
        /\ res.val.edges = RunIngestion(Sound(res.files, res.connectors), res.connectors).edges

C18_Witness ==
    /\ res.op = "run_ingestion"
    /\ \E f \in 1..Len(res.files) : res.files[f].load = "invalid"
    /\ \E p \in Failing(res.files, res.connectors) :
          /\ res.val.results[p[1]][p[2]].parsed_by = <<"TeamsConnector">>
          /\ Cardinality(Accepting(res.connectors, res.files[p[1]].documents[p[2]])) = 2
    /\ res.val.nodes # <<>>
    /\ res.val.edges # <<>>

RetryRunning == res.op = "write_with_retry"

\* C19: write_with_retry makes at most `retries` attempts; it returns at the
\* first attempt in which write_nodes and write_edges both succeed, every
\* attempt before having failed, and then attempts nothing more; it raises
\* only when exactly `retries` attempts have failed; and a call that has begun
\* comes to its return or its raise.
C19_BoundedRetry ==
    /\ [](RetryRunning =>
            /\ res.attempt \in 1..res.retries
            /\ res.failed <= res.retries
            /\ At("returned") => res.failed = res.attempt - 1
            /\ At("raised") => res.failed = res.retries /\ res.attempt = res.retries
            /\ (At("try") \/ At("edges")) => res.failed = res.attempt - 1)
    /\ [][(At("returned") \/ At("raised")) => res' = Idle /\ store' = store]_vars
    /\ (RetryRunning ~> (At("returned") \/ At("raised")))

C19_Witness ==
    /\ At("raised")
    /\ res.retries = MaxRetries
    /\ res.failed = MaxRetries
    /\ store.rels # EmptyBag

\* the relationships of a store by the ids and the type they join
EdgesOf(s) == {<<s.props[r[1]]["id"], r[2], s.props[r[3]]["id"]>> : r \in RelSet(s)}

NodeIdsOf(s) == {s.props[k]["id"] : k \in NodeSet(s)}

\* C20: no step of an ingestion run, one that fails part-way included, takes
\* a node id or an edge out of the store, and what get_node, downstream and
\* upstream returned for an id before the step they still return after it.
C20_AdditiveMerge ==
    [][/\ NodeIdsOf(store) \subseteq NodeIdsOf(store')
       /\ EdgesOf(store) \subseteq EdgesOf(store')
       /\ \A i \in RetryIds :
            /\ GetNodeOutcomes(store, i) # {None} => GetNodeOutcomes(store', i) # {None}
            /\ IdsOf(DownstreamList(store, i)) \subseteq IdsOf(DownstreamList(store', i))
            /\ IdsOf(UpstreamList(store, i)) \subseteq IdsOf(UpstreamList(store', i))]_vars

C20_Witness ==
    /\ At("raised")
    /\ \E k \in NodeSet(store) :
          \A n \in 1..Len(res.nodes) : res.nodes[n].id # store.props[k]["id"]
    /\ \E e \in EdgesOf(store) :
          \A n \in 1..Len(res.edges) : <<res.edges[n].from, res.edges[n].to>> # <<e[1], e[3]>>
    /\ res.nodes # <<>>

\* the nodes that one or more DEPENDS_ON hops reach from the nodes of id i,
\* forward or against the arrows, as the closure of the one-hop relation
RECURSIVE Closure(_, _, _, _)
Closure(s, front, k, forward) ==
    LET next == {IF forward THEN r[3] ELSE r[1] :
                    r \in {x \in DependsOn(s) : (IF forward THEN x[1] ELSE x[3]) \in front}}
    IN  IF k = 0 THEN {} ELSE next \cup Closure(s, next, k - 1, forward)

\* C21: in every stored graph, cycles and self-loops included, downstream and
\* upstream return, and what they return is a
\* finite list in which no node occurs twice and which holds every node that
\* any number of DEPENDS_ON hops reaches, however many.
C21_TraversalTerminates ==
    res.op \in {"downstream_list", "upstream_list"} =>
          /\ IsABag(res.val)
          /\ IsFiniteSet(BagToSet(res.val))
          /\ \A d \in BagToSet(res.val) : CopiesIn(d, res.val) = 1
          /\ BagToSet(res.val) =
                {_node_to_dict(store, k) :
                    k \in Closure(store, MatchId(store, res.arg),
                                  Cardinality(DependsOn(store)), res.op = "downstream_list")}

C21_Witness ==
    /\ res.op = "downstream_list"
    /\ res.arg \in IdsOf(BagToSet(res.val))
    /\ Cardinality(BagToSet(res.val)) >= 2
    /\ \E r \in DependsOn(store) : r[1] = r[3]

\* C22: for each of the six node types, get_nodes(type, filters) returns
\* exactly the stored nodes that were merged with that type and whose
\* properties equal every filter value; with no filter, every node of the type.
C22_GetNodesByType ==
    res.op = "get_nodes" =>
        res.val = {_node_to_dict(store, k) :
                      k \in {n \in NodeSet(store) :
                                /\ n[1] = _label(res.arg.type)
                                /\ \A key \in DOMAIN res.arg.filters :
                                      /\ key \in DOMAIN store.props[n]
                                      /\ store.props[n][key] = res.arg.filters[key]}}

\* a document its connector accepts and that breaks the connector's
\* assumptions: a team entry with no name, a Kubernetes document with no
\* metadata.name or of a kind other than Deployment and Service
Malformed(connector, data) ==
    /\ can_handle(connector, data) = "yes"
    /\ CASE connector = "TeamsConnector" ->
                \E i \in 1..Len(data.teams) : data.teams[i] # Null /\ data.teams[i].name = <<>>
         [] connector = "KubernetesConnector" ->
                \/ data.metadata = Null
                \/ data.metadata.name = <<>>
                \/ data.kind \notin {"Deployment", "Service"}
         [] OTHER -> FALSE

\* C23: parse of an accepted document that breaks the connector's assumptions
\* raises, and does not return nodes and edges with the offending entry left out.
C23_MalformedRaises ==
    (res.op = "parse" /\ Malformed(res.connector, res.data)) => res.val = Raise

\* a run of run_ingest has been started by on_modified at time t or later
RunSince(t) == Watching /\ res.last_trigger_time >= t

\* a change of a structural file at time t is queued
Queued(t) ==
    Watching /\ \E i \in 1..Len(res.queue) : qualifies(res.queue[i]) /\ res.queue[i].at = t

\* C24: every modification event for a path that is no directory and ends in
\* .yml or .yaml is in the end followed by an ingestion run that starts at the
\* time of the event or later.
C24_EveryChangeIngested ==
    \A t \in Epoch..(Epoch + MaxClock) : Queued(t) ~> RunSince(t)

\* C25: no two runs of run_ingest are in progress at once, the initial one of
\* start_watcher counted, and two runs that on_modified starts begin at least
\* cooldown_seconds apart.
C25_RunsSerialized ==
    Watching =>
        /\ RunsInProgress <= 1
        /\ res.previous # 0 => res.last_trigger_time - res.previous >= cooldown_seconds

C25_Witness ==
    /\ Watching
    /\ res.previous # 0
    /\ res.observer = "handling"
    /\ res.queue # <<>>

\* C30: an exception of run_ingest, in the initial run or in on_modified, is
\* caught: the observer is started and its thread lives on, and after a failed
\* run the next change of a structural file that on_modified meets outside the
\* cooldown starts a run.
C30_SurvivesFailure ==
    /\ [](Watching => /\ res.observer # "dead"
                      /\ res.main = "sleep" => res.observer # "off")
    /\ [][(/\ Watching /\ res.failed
           /\ res.observer = "idle" /\ res.queue # <<>>
           /\ res'.queue = Tail(res.queue)
           /\ qualifies(Head(res.queue))
           /\ res.now - res.last_trigger_time >= cooldown_seconds)
          => (res'.observer = "handling" /\ res'.last_trigger_time = res.now)]_vars

C30_Witness ==
    /\ Watching
    /\ res.failed
    /\ res.observer = "handling"
    /\ res.previous # 0

\* C26: a resource that a compose document defines under services and that a
\* team lists under owns gets one node id from DockerComposeConnector and
\* TeamsConnector, so that get_owner of the id the compose connector gave
\* returns that team.
C26_CrossConnectorIdentity ==
    /\ res.op = "main" =>
          /\ res.compose_id = res.teams_id
          /\ \A owner \in GetOwnerOutcomes(store, res.compose_id) :
                owner # None /\ owner.id = NodeId(S_team, res.team)
    /\ res.op = "get_owner" /\ res.val = None =>
          \A n \in NodeSet(store) :
              store.props[n]["id"] = res.arg => store.props[n]["source"] # "docker-compose.yml"

\* C27: whatever retries is, zero and negative values included, when
\* write_with_retry, called with nodes to write, returns without raising, some
\* one attempt has completed
\* write_nodes and then write_edges: every node of the call is stored, and
\* every edge of the call whose endpoints are stored.
C27_ReturnMeansWritten ==
    At("returned") /\ res.nodes # <<>> =>
        /\ res.attempt >= 1
        /\ res.failed = res.attempt - 1
        /\ \A i \in 1..Len(res.nodes) : MatchId(store, res.nodes[i].id) # {}
        /\ \A i \in 1..Len(res.edges) :
              LET edge == res.edges[i]
              IN  \A a \in MatchId(store, edge.from), b \in MatchId(store, edge.to) :
                      <<a, edge.type, b>> \in RelSet(store)

\* C28: the node, downstream, upstream and teams that blast_radius returns
\* while an ingestion merges beside it are those of one store state that
\* existed during the call.
C28_SnapshotConsistent ==
    BlastAt("returned") =>
        \E s \in res.seen : res.val \in BlastRadiusOutcomes(s, res.arg)

\* C29: for a stored node n on no DEPENDS_ON cycle, blast_radius(n) looks up
\* the owners of the nodes upstream and downstream of n only, n not being one
\* of them: a team is in teams only if it owns one of those other nodes, and
\* so the team that owns n is there only if it owns another impacted node too.
C29_OwnOwnerNotLookedUp ==
    (res.op = "blast_radius" /\ res.val # None /\ res.arg \notin ReachedIds(store, res.arg)) =>
        LET others == IdsOf(UpstreamList(store, res.arg)) \cup IdsOf(DownstreamList(store, res.arg))
        IN  /\ res.arg \notin others
            /\ IdsOf(res.val.downstream) = others
            /\ IdsOf(res.val.teams) \subseteq OwnerIdsOf(store, others)

C29_Witness ==
    /\ res.op = "blast_radius" /\ res.val # None
    /\ res.arg \notin ReachedIds(store, res.arg)
    /\ res.val.downstream # {}
    /\ OwnerRows(store, res.arg) # {}
    /\ OwnerIdsOf(store, {res.arg}) \cap IdsOf(res.val.teams) = {}
====
